---- MODULE Spec2Model ----
(***************************************************************************)
(* Model of the retrieval-and-answer pipeline of rag-portfolio:            *)
(* RAGSystem (add_document, search, answer_question), the two embedding    *)
(* providers, the generation backends with their health checks, the       *)
(* constructor of RAGSystem and VectorStore (create_table,                 *)
(* get_table_info, insert_document, search_similar).  Calls are atomic in  *)
(* Spec, SpecSchema, SpecAnswer and SpecConnections; SpecThreads follows   *)
(* two interleaved callers step by step.                                   *)
(*                                                                         *)
(* Python values that may be None are records with a "kind" field, so that *)
(* None can be compared with any of them.  An embedding vector is the      *)
(* record [kind |-> "vector", len |-> n, dir |-> d]: n is len(vector) and  *)
(* d names its direction, one of a few directions in a half plane whose    *)
(* pairwise cosine distances are known exactly.                            *)
(***************************************************************************)
EXTENDS Integers, Sequences, FiniteSets, TLC

VARIABLES
    embedding_model,  \* RAGSystem.embedding_model / VectorStore.model_type
    use_local_llm,    \* RAGSystem.use_local_llm
    schema,           \* how many tables and indexes the family has in the database
    table,            \* rows of the family's table, in insertion order
    op,               \* the operation that has just returned, with its inputs
    ret,              \* the value it returned
    io,               \* the calls it made to its collaborators
    self_db,          \* RAGSystem.db: the connection and cursor it holds now
    conns,            \* every connection opened so far, in order of opening
    pc                \* where each concurrent caller is in its call

vars == <<embedding_model, use_local_llm, schema, table, op, ret, io,
          self_db, conns, pc>>

----------------------------------------------------------------------------
(* Bounds of the model *)

MaxDocs == 2          \* rows the table may hold
MaxTopK == 3          \* largest top_k passed to search and search_similar
WrongLen == 512       \* a vector length no family declares
MaxAnswerDocs == 4    \* documents in the collection when a question is asked
MaxConnections == 3   \* connections opened by interleaved callers

(* Program constants *)

GoogleDim == 768
OllamaDim == 1024
AnswerTopK == 3

None == [kind |-> "None"]

\* An exception leaving a call, in place of its return value
Raised(error) == [kind |-> "raised", error |-> error]

Families == {"google", "ollama"}

\* RAGSystem.__init__ picks the table; VectorStore.TABLE_CONFIG its dimension
TableName(fam) ==
    IF fam = "google" THEN "documents_google_768" ELSE "documents_ollama_1024"

EmbeddingDim(fam) == IF fam = "google" THEN GoogleDim ELSE OllamaDim

Texts == {"A", "B"}
Dirs == 0 .. 2
TopKs == -1 .. MaxTopK

Vec(n, d) == [kind |-> "vector", len |-> n, dir |-> d]

\* Python truthiness of an optional list: None and [] are falsy
Falsy(v) == IF v.kind = "None" THEN TRUE ELSE v.len = 0

----------------------------------------------------------------------------
(* The embedding backends.  A backend answers a request with an error      *)
(* (transport, authentication), with a body that carries no vector, or     *)
(* with a vector of some length.                                           *)

EmbResponses(fam) ==
    {[kind |-> "error"], [kind |-> "missing"], Vec(0, 0)}
        \cup {Vec(n, d) : n \in {EmbeddingDim(fam), WrongLen}, d \in Dirs}

\* GeminiEmbedding.get_embedding: the return None of line 44 is not inside
\* the if of line 42, so it is executed for every vector
GeminiGetEmbedding(resp) ==
    IF resp.kind = "error" THEN None            \* except Exception
    ELSE IF resp.kind = "missing" THEN None     \* KeyError, except Exception
    ELSE IF resp.len # GoogleDim THEN None      \* print, then line 44
    ELSE None                                   \* line 44

\* GeminiEmbedding.get_query_embedding: no length check
GeminiGetQueryEmbedding(resp) ==
    IF resp.kind = "error" THEN None
    ELSE IF resp.kind = "missing" THEN None
    ELSE resp

OllamaGetEmbeddingNoDimCheck(resp) ==
    IF resp.kind = "error" THEN None
    ELSE IF resp.kind = "missing" THEN None
    ELSE IF resp.len = 0 THEN None
    ELSE resp

\* OllamaEmbedding.get_embedding
OllamaGetEmbedding(resp) ==
    IF resp.kind = "error" THEN None            \* RequestException
    ELSE IF resp.kind = "missing" THEN None     \* result.get -> None
    ELSE IF resp.len = 0 THEN None              \* not embedding
    ELSE IF resp.len # OllamaDim THEN None
    ELSE resp

\* OllamaEmbedding.get_query_embedding
OllamaGetQueryEmbedding(resp) == OllamaGetEmbedding(resp)

\* self.embedder.get_embedding / get_query_embedding of RAGSystem
get_embedding(fam, resp) ==
    IF fam = "google" THEN GeminiGetEmbedding(resp) ELSE OllamaGetEmbedding(resp)

get_query_embedding(fam, resp) ==
    IF fam = "google" THEN GeminiGetQueryEmbedding(resp)
    ELSE OllamaGetQueryEmbedding(resp)

----------------------------------------------------------------------------
(* The database: one table per family, column embedding vector(dim).       *)

\* the (text, metadata) arguments of add_document: metadata is None or a dict
Documents == {[text |-> "A", metadata |-> None],
              [text |-> "B", metadata |-> [kind |-> "dict", source |-> "cli"]]}

\* json.dumps(metadata) if metadata else None
MetadataParam(metadata) == IF metadata.kind = "None" THEN None ELSE metadata

\* what the environment does to the database during one operation
DbOutcomes == {"ok", "connect_fail", "execute_fail", "commit_fail"}
DbReadOutcomes == {"ok", "connect_fail", "execute_fail"}

DbError == [kind |-> "error"]

\* the operator <=> of the queries: cosine distance.  The directions 0, 1, 2
\* stand at 0, 90 and 180 degrees, so the distance 1 - cos is 0, 1 or 2.
CosineDistance(u, v) == IF u.dir >= v.dir THEN u.dir - v.dir ELSE v.dir - u.dir

\* BIGSERIAL id of the next row
NextId(rows) == Len(rows) + 1

\* INSERT INTO table (document_text, embedding, metadata) VALUES ... RETURNING id
\* as the database answers it: a vector that does not fit the column type
\* vector(dim) is an error, otherwise the new row.
InsertSQL(fam, rows, text, embedding, metadata) ==
    IF embedding.len # EmbeddingDim(fam) THEN DbError
    ELSE [kind |-> "row",
          row |-> [id |-> NextId(rows), document_text |-> text,
                   embedding |-> embedding, metadata |-> metadata]]

Orders(n) == {p \in [1 .. n -> 1 .. n] : \A i, j \in 1 .. n : i # j => p[i] # p[j]}

NearestRowsNoLimit(rows, q, k) ==
    LET n == Len(rows)
        dist(i) == CosineDistance(rows[i].embedding, q)
        sorted == {p \in Orders(n) : \A i \in 1 .. n - 1 : dist(p[i]) <= dist(p[i + 1])}
    IN  {[i \in 1 .. n |-> [id |-> rows[p[i]].id,
                            document_text |-> rows[p[i]].document_text,
                            metadata |-> rows[p[i]].metadata,
                            distance |-> dist(p[i])]] : p \in sorted}

\* SELECT id, document_text, metadata, embedding <=> q AS distance
\* FROM table ORDER BY embedding <=> q LIMIT k, for k >= 0: every answer the
\* database may give (rows at the same distance come in any order)
NearestRows(rows, q, k) ==
    LET n == Len(rows)
        m == IF k < n THEN k ELSE n
        dist(i) == CosineDistance(rows[i].embedding, q)
        sorted == {p \in Orders(n) : \A i \in 1 .. n - 1 : dist(p[i]) <= dist(p[i + 1])}
    IN  {[i \in 1 .. m |-> [id |-> rows[p[i]].id,
                            document_text |-> rows[p[i]].document_text,
                            metadata |-> rows[p[i]].metadata,
                            distance |-> dist(p[i])]] : p \in sorted}

\* The SELECT of search and search_similar as the database answers it.
\* q is the vector literal, castDim the n of its cast ::vector(n).
SelectSQL(fam, rows, q, castDim, k) ==
    IF q.len = 0 \/ q.len # castDim THEN {DbError}       \* the cast fails
    ELSE IF k < 0 THEN {DbError}                         \* LIMIT must not be negative
    ELSE IF rows # <<>> /\ q.len # EmbeddingDim(fam)
         THEN {DbError}                                  \* different vector dimensions
    ELSE {[kind |-> "rows", rows |-> r] : r \in NearestRows(rows, q, k)}

\* the calls one operation makes to its collaborators
NoIO == [connects |-> 0, closes |-> 0, embed |-> <<>>, sql |-> <<>>,
         commits |-> 0, generate |-> <<>>, list_models |-> 0]

\* after self.db.connect() returned True
Connected == [NoIO EXCEPT !.connects = 1]

----------------------------------------------------------------------------
(* RAGSystem.add_document *)

AddDocumentRunCommitsOnFailure(fam, rows, text, metadata, db, resp) ==
    IF db = "connect_fail"
    THEN [ret |-> None, table |-> rows, io |-> NoIO]
    ELSE
      LET embedding == get_embedding(fam, resp)
          io1 == [Connected EXCEPT
                      !.embed = <<[method |-> "get_embedding", text |-> text]>>,
                      !.closes = 1]
      IN  IF Falsy(embedding)
          THEN [ret |-> None, table |-> rows, io |-> io1]
          ELSE
            LET param == MetadataParam(metadata)
                stmt == [stmt |-> "INSERT", document_text |-> text,
                         embedding |-> embedding, metadata |-> param]
                result == IF db = "execute_fail" THEN DbError
                          ELSE InsertSQL(fam, rows, text, embedding, param)
                io2 == [io1 EXCEPT !.sql = <<stmt>>, !.commits = 1]
            IN  IF db = "commit_fail"
                THEN [ret |-> None,
                      table |-> IF result.kind = "row"
                                THEN Append(rows, result.row) ELSE rows,
                      io |-> io2]
                ELSE IF result.kind = "row"
                THEN [ret |-> [kind |-> "id", id |-> result.row.id],
                      table |-> Append(rows, result.row), io |-> io2]
                ELSE [ret |-> None, table |-> rows, io |-> io2]

\* The whole call: its return value, the table after it and its calls.
\* db is what the database does during the call, resp the backend's answer.
AddDocumentRun(fam, rows, text, metadata, db, resp) ==
    IF db = "connect_fail"
    THEN [ret |-> None, table |-> rows, io |-> NoIO]
    ELSE
      LET embedding == get_embedding(fam, resp)
          io1 == [Connected EXCEPT
                      !.embed = <<[method |-> "get_embedding", text |-> text]>>,
                      !.closes = 1]
      IN  IF Falsy(embedding)
          THEN [ret |-> None, table |-> rows, io |-> io1]
          ELSE
            LET param == MetadataParam(metadata)
                stmt == [stmt |-> "INSERT", document_text |-> text,
                         embedding |-> embedding, metadata |-> param]
                \* DatabaseConnection.execute returns None on any error
                result == IF db = "execute_fail" THEN DbError
                          ELSE InsertSQL(fam, rows, text, embedding, param)
                io2 == [io1 EXCEPT !.sql = <<stmt>>, !.commits = 1]
            IN  IF db = "commit_fail"
                THEN [ret |-> None, table |-> rows, io |-> io2]  \* except Exception
                ELSE IF result.kind = "row"
                THEN [ret |-> [kind |-> "id", id |-> result.row.id],
                      table |-> Append(rows, result.row), io |-> io2]
                ELSE [ret |-> None, table |-> rows, io |-> io2]

----------------------------------------------------------------------------
(* RAGSystem.search *)

\* text[:100]; every text of the model is shorter than 100 characters
Preview(text) == text

ThresholdZero == [kind |-> "value", value |-> 0]

\* threshold = None of line 198
Threshold == None

\* threshold is None or distance <= threshold
Passes(distance, threshold) ==
    IF threshold.kind = "None" THEN TRUE ELSE distance <= threshold.value

RECURSIVE FilterStage(_, _)
\* the loop of lines 200-218 over results_raw: the retained rows, their
\* diagnostics entries and the discarded ones
FilterStage(raw, threshold) ==
    IF raw = <<>>
    THEN [results |-> <<>>, results_filtered |-> <<>>, discarded_reasons |-> <<>>]
    ELSE
      LET r == Head(raw)
          rest == FilterStage(Tail(raw), threshold)
      IN  IF Passes(r.distance, threshold)
          THEN [rest EXCEPT
                  !.results = <<[id |-> r.id, text |-> r.document_text,
                                 metadata |-> r.metadata,
                                 distance |-> r.distance]>> \o @,
                  !.results_filtered = <<[id |-> r.id, distance |-> r.distance]>> \o @]
          ELSE [rest EXCEPT
                  !.discarded_reasons =
                      <<[id |-> r.id,
                         reason |-> [distance |-> r.distance, threshold |-> threshold],
                         distance |-> r.distance]>> \o @]

SearchResultStaleCount(fam, q, raw) ==
    LET f == FilterStage(raw, Threshold)
    IN  [results |-> f.results,
         debug_info |->
            [kind |-> "dict",
             table_name |-> TableName(fam),
             embedding_model |-> fam,
             embedding_dim |-> q.len,
             top_k_raw |-> Len(raw),
             threshold |-> None,
             results_raw |->
                [i \in 1 .. Len(raw) |->
                    [rank |-> i, id |-> raw[i].id, distance |-> raw[i].distance,
                     text_preview |-> Preview(raw[i].document_text)]],
             results_filtered |-> f.results_filtered,
             filtered_count |-> 0,
             discarded_reasons |-> f.discarded_reasons]]

SearchResultNoneWhenEmpty(fam, q, raw) ==
    IF raw = <<>>
    THEN [results |-> <<>>, debug_info |-> None]
    ELSE SearchResultStaleCount(fam, q, raw)

\* lines 171-228: the return value built from the rows fetched
SearchResult(fam, q, raw) ==
    LET f == FilterStage(raw, Threshold)
    IN  [results |-> f.results,
         debug_info |->
            [kind |-> "dict",
             table_name |-> TableName(fam),
             embedding_model |-> fam,
             embedding_dim |-> q.len,
             top_k_raw |-> Len(raw),
             threshold |-> None,
             results_raw |->
                [i \in 1 .. Len(raw) |->
                    [rank |-> i, id |-> raw[i].id, distance |-> raw[i].distance,
                     text_preview |-> Preview(raw[i].document_text)]],
             results_filtered |-> f.results_filtered,
             filtered_count |-> Len(f.results),
             discarded_reasons |-> f.discarded_reasons]]

SearchFailedWithDiagnostics ==
    [results |-> <<>>,
     debug_info |-> [kind |-> "dict", top_k_raw |-> 0, threshold |-> None,
                     results_raw |-> <<>>, results_filtered |-> <<>>,
                     filtered_count |-> 0, discarded_reasons |-> <<>>]]

\* {'results': [], 'debug_info': None}
SearchFailed == [results |-> <<>>, debug_info |-> None]

SearchRunsRetry(fam, rows, query_text, top_k, db, resp) ==
    IF db = "connect_fail"
    THEN {[ret |-> SearchFailed, io |-> NoIO]}
    ELSE
      LET call == [method |-> "get_query_embedding", text |-> query_text]
          first == get_query_embedding(fam, resp)
          query_embedding == IF Falsy(first) THEN get_query_embedding(fam, resp)
                             ELSE first
          io1 == [Connected EXCEPT
                      !.embed = IF Falsy(first) THEN <<call, call>> ELSE <<call>>,
                      !.closes = 1]
      IN  IF Falsy(query_embedding)
          THEN {[ret |-> SearchFailed, io |-> io1]}
          ELSE
            LET stmt == [stmt |-> "SELECT", vector |-> query_embedding,
                         castDim |-> query_embedding.len, limit |-> top_k]
                answers == IF db = "execute_fail" THEN {DbError}
                           ELSE SelectSQL(fam, rows, query_embedding,
                                          query_embedding.len, top_k)
            IN  {[ret |-> IF a.kind = "error" THEN SearchFailed
                          ELSE SearchResult(fam, query_embedding, a.rows),
                  io |-> [io1 EXCEPT !.sql = <<stmt>>]] : a \in answers}

\* The whole call: every (return value, calls) it may end with
SearchRuns(fam, rows, query_text, top_k, db, resp) ==
    IF db = "connect_fail"
    THEN {[ret |-> SearchFailed, io |-> NoIO]}
    ELSE
      LET query_embedding == get_query_embedding(fam, resp)
          io1 == [Connected EXCEPT
                      !.embed = <<[method |-> "get_query_embedding",
                                   text |-> query_text]>>,
                      !.closes = 1]
      IN  IF Falsy(query_embedding)
          THEN {[ret |-> SearchFailed, io |-> io1]}
          ELSE
            LET stmt == [stmt |-> "SELECT", vector |-> query_embedding,
                         castDim |-> query_embedding.len, limit |-> top_k]
                answers == IF db = "execute_fail" THEN {DbError}
                           ELSE SelectSQL(fam, rows, query_embedding,
                                          query_embedding.len, top_k)
            IN  {[ret |-> IF a.kind = "error" THEN SearchFailed  \* except Exception
                          ELSE SearchResult(fam, query_embedding, a.rows),
                  io |-> [io1 EXCEPT !.sql = <<stmt>>]] : a \in answers}

----------------------------------------------------------------------------
(* The generation backends and RAGSystem.answer_question *)

\* a backend answers with an error or with a text, which may be empty
GenResponses == {[kind |-> "error"], [kind |-> "text", text |-> ""],
                 [kind |-> "text", text |-> "generated"]}

LocalLLMGenerateNoCatch(resp) ==
    IF resp.kind = "error" THEN Raised("Exception") ELSE resp

\* LocalLLM.generate: response['response'], None on any exception
LocalLLMGenerate(resp) == IF resp.kind = "error" THEN None ELSE resp

\* CloudLLM.generate: response.text, None on any exception
CloudLLMGenerate(resp) == IF resp.kind = "error" THEN None ELSE resp

\* self.llm.generate
llm_generate(local, resp) ==
    IF local THEN LocalLLMGenerate(resp) ELSE CloudLLMGenerate(resp)

\* the two fixed answers of answer_question (lines 265 and 309)
NoDocumentsAnswer == "no relevant documents were found"
GenerationFailedAnswer == "answer generation failed"

\* lines 274-289: the documents labelled 1..n and joined by a blank line,
\* inside the template instruction, context, question, answer cue
PromptReversed(question, search_results) ==
    [instruction |-> "answer from the context",
     separator |-> "blank line",
     context |-> [i \in 1 .. Len(search_results) |->
                     [label |-> i,
                      text |-> search_results[Len(search_results) + 1 - i].text]],
     question |-> question,
     cue |-> "answer:"]

Prompt(question, search_results) ==
    [instruction |-> "answer from the context",
     separator |-> "blank line",                  \* "\n\n".join
     context |-> [i \in 1 .. Len(search_results) |->
                     [label |-> i, text |-> search_results[i].text]],
     question |-> question,
     cue |-> "answer:"]

AnswerFromSearchAlwaysGenerates(local, question, s, gen) ==
    LET answer == llm_generate(local, gen)
        io1 == [s.io EXCEPT !.generate = <<Prompt(question, s.ret.results)>>]
    IN  IF answer.kind # "None" /\ answer.text # ""
        THEN [ret |-> [answer |-> answer.text, debug_info |-> s.ret.debug_info],
              io |-> io1]
        ELSE [ret |-> [answer |-> GenerationFailedAnswer,
                       debug_info |-> s.ret.debug_info],
              io |-> io1]

AnswerFromSearchDropsDiagnostics(local, question, s, gen) ==
    IF s.ret.results = <<>>
    THEN [ret |-> [answer |-> NoDocumentsAnswer, debug_info |-> s.ret.debug_info],
          io |-> s.io]
    ELSE
      LET answer == llm_generate(local, gen)
          io1 == [s.io EXCEPT !.generate = <<Prompt(question, s.ret.results)>>]
      IN  IF answer.kind # "None" /\ answer.text # ""
          THEN [ret |-> [answer |-> answer.text, debug_info |-> s.ret.debug_info],
                io |-> io1]
          ELSE [ret |-> [answer |-> GenerationFailedAnswer, debug_info |-> None],
                io |-> io1]

\* lines 260-311: the rest of answer_question after search returned s
AnswerFromSearchRetriesGenerate(local, question, s, gen) ==
    IF s.ret.results = <<>>
    THEN [ret |-> [answer |-> NoDocumentsAnswer, debug_info |-> s.ret.debug_info],
          io |-> s.io]
    ELSE
      LET answer == llm_generate(local, gen)
          prompt == Prompt(question, s.ret.results)
      IN  IF answer.kind # "None" /\ answer.text # ""
          THEN [ret |-> [answer |-> answer.text, debug_info |-> s.ret.debug_info],
                io |-> [s.io EXCEPT !.generate = <<prompt>>]]
          ELSE [ret |-> [answer |-> GenerationFailedAnswer,
                         debug_info |-> s.ret.debug_info],
                io |-> [s.io EXCEPT !.generate = <<prompt, prompt>>]]

AnswerFromSearch(local, question, s, gen) ==
    IF s.ret.results = <<>>                       \* not search_results
    THEN [ret |-> [answer |-> NoDocumentsAnswer, debug_info |-> s.ret.debug_info],
          io |-> s.io]
    ELSE
      LET answer == llm_generate(local, gen)
          io1 == [s.io EXCEPT !.generate = <<Prompt(question, s.ret.results)>>]
      IN  IF answer.kind = "raised"          \* no try in answer_question
          THEN [ret |-> answer, io |-> io1]
          ELSE IF answer.kind # "None" /\ answer.text # ""        \* if answer
          THEN [ret |-> [answer |-> answer.text, debug_info |-> s.ret.debug_info],
                io |-> io1]
          ELSE [ret |-> [answer |-> GenerationFailedAnswer,
                         debug_info |-> s.ret.debug_info],
                io |-> io1]

\* The whole call: every (return value, calls) it may end with
AnswerQuestionRuns(fam, local, rows, question, db, resp, gen) ==
    {AnswerFromSearch(local, question, s, gen) :
        s \in SearchRuns(fam, rows, question, AnswerTopK, db, resp)}

----------------------------------------------------------------------------
(* VectorStore.insert_document and VectorStore.search_similar *)

\* the vectors a caller may pass
QueryVectors(fam) ==
    {Vec(0, 0)} \cup {Vec(n, d) : n \in {EmbeddingDim(fam), WrongLen}, d \in Dirs}

\* The whole call of insert_document: its return value, the table after it
\* and its calls
InsertDocumentRun(fam, rows, text, embedding, metadata, db) ==
    IF db = "connect_fail"
    THEN [ret |-> None, table |-> rows, io |-> NoIO]
    ELSE
      LET param == MetadataParam(metadata)
          stmt == [stmt |-> "INSERT", document_text |-> text,
                   embedding |-> embedding, metadata |-> param]
          result == IF db = "execute_fail" THEN DbError
                    ELSE InsertSQL(fam, rows, text, embedding, param)
          io1 == [Connected EXCEPT !.sql = <<stmt>>, !.commits = 1, !.closes = 1]
      IN  IF db = "commit_fail"
          THEN [ret |-> None, table |-> rows, io |-> io1]
          ELSE IF result.kind = "row"
          THEN [ret |-> [kind |-> "id", id |-> result.row.id],
                table |-> Append(rows, result.row), io |-> io1]
          ELSE [ret |-> None, table |-> rows, io |-> io1]

\* lines 205-245: the return value built from the rows fetched
SimilarResult(fam, q, raw, model_name) ==
    [results |-> [i \in 1 .. Len(raw) |->
                    [id |-> raw[i].id, text |-> raw[i].document_text,
                     metadata |-> raw[i].metadata, distance |-> raw[i].distance]],
     debug_info |->
        [kind |-> "dict",
         table_name |-> TableName(fam),
         embedding_model |-> model_name,
         embedding_dim |-> q.len,
         top_k_raw |-> Len(raw),
         threshold |-> None,
         results_raw |->
            [i \in 1 .. Len(raw) |->
                [rank |-> i, id |-> raw[i].id, distance |-> raw[i].distance,
                 text_preview |-> Preview(raw[i].document_text)]],
         results_filtered |->
            [i \in 1 .. Len(raw) |-> [id |-> raw[i].id, distance |-> raw[i].distance]],
         filtered_count |-> Len(raw),
         discarded_reasons |-> <<>>]]

\* The whole call: every (return value, calls) it may end with
SearchSimilarRuns(fam, rows, query_embedding, top_k, db) ==
    IF db = "connect_fail"
    THEN {[ret |-> SearchFailed, io |-> NoIO]}
    ELSE
      LET stmt == [stmt |-> "SELECT", vector |-> query_embedding,
                   castDim |-> EmbeddingDim(fam), limit |-> top_k]
          answers == IF db = "execute_fail" THEN {DbError}
                     ELSE SelectSQL(fam, rows, query_embedding,
                                    EmbeddingDim(fam), top_k)
      IN  {[ret |-> IF a.kind = "error" THEN SearchFailed
                    ELSE SimilarResult(fam, query_embedding, a.rows, None),
            io |-> [Connected EXCEPT !.sql = <<stmt>>, !.closes = 1]] : a \in answers}

----------------------------------------------------------------------------
(* VectorStore.create_table and the schema it creates *)

NoSchema == [tables |-> 0, indexes |-> 0]

\* The family's table with its hnsw index, as create_table leaves them
Deployed == [tables |-> 1, indexes |-> 1]

\* A statement on a table that does not exist fails in the database.
DbOutcomeOn(sch, db) ==
    IF db = "ok" /\ sch.tables = 0 THEN "execute_fail" ELSE db

CreateOutcomes == {"ok", "connect_fail", "table_fail", "index_fail", "commit_fail"}

\* CREATE TABLE IF NOT EXISTS <table_name> (vector_store.py:54-62)
CreateTableSQL(sch) ==
    IF sch.tables > 0
    THEN [schema |-> sch, result |-> "exists"]
    ELSE [schema |-> [sch EXCEPT !.tables = sch.tables + 1], result |-> "created"]

CreateIndexSQLUnnamed(sch) ==
    IF sch.tables = 0
    THEN [schema |-> sch, result |-> "error"]
    ELSE [schema |-> [sch EXCEPT !.indexes = sch.indexes + 1], result |-> "created"]

\* CREATE INDEX IF NOT EXISTS <table_name>_embedding_idx ON <table_name>
\* (vector_store.py:70-75)
CreateIndexSQL(sch) ==
    IF sch.tables = 0
    THEN [schema |-> sch, result |-> "error"]
    ELSE IF sch.indexes > 0
    THEN [schema |-> sch, result |-> "exists"]
    ELSE [schema |-> [sch EXCEPT !.indexes = sch.indexes + 1], result |-> "created"]

\* VectorStore.create_table (vector_store.py:43-111).  The results of the
\* two execute calls are not looked at; only an exception (from commit)
\* makes it return False.
CreateTableRun(sch, db) ==
    IF db = "connect_fail"
    THEN [ret |-> [kind |-> "bool", value |-> FALSE], schema |-> sch, io |-> NoIO]
    ELSE
      LET t == IF db = "table_fail" THEN [schema |-> sch, result |-> "error"]
               ELSE CreateTableSQL(sch)
          s1 == [stmt |-> "CREATE TABLE", result |-> t.result]
      IN  IF db = "commit_fail"
          THEN [ret |-> [kind |-> "bool", value |-> FALSE], schema |-> sch,
                io |-> [Connected EXCEPT !.sql = <<s1>>, !.commits = 1,
                                         !.closes = 1]]
          ELSE
            LET i == IF db = "index_fail"
                     THEN [schema |-> t.schema, result |-> "error"]
                     ELSE CreateIndexSQL(t.schema)
                s2 == [stmt |-> "CREATE INDEX", result |-> i.result]
                s3 == [stmt |-> "SELECT columns"]
            IN  [ret |-> [kind |-> "bool", value |-> TRUE], schema |-> i.schema,
                 io |-> [Connected EXCEPT !.sql = <<s1, s2, s3>>, !.commits = 2,
                                          !.closes = 1]]

GetTableInfoRunLeaksOnError(fam, rows, db) ==
    IF db = "connect_fail"
    THEN [ret |-> None, io |-> NoIO]
    ELSE IF db = "execute_fail"
    THEN [ret |-> [kind |-> "dict", model_type |-> fam,
                   table_name |-> TableName(fam),
                   embedding_dim |-> EmbeddingDim(fam), document_count |-> 0],
          io |-> [Connected EXCEPT !.sql = <<[stmt |-> "SELECT COUNT"]>>]]
    ELSE [ret |-> [kind |-> "dict", model_type |-> fam,
                   table_name |-> TableName(fam),
                   embedding_dim |-> EmbeddingDim(fam),
                   document_count |-> Len(rows)],
          io |-> [Connected EXCEPT !.sql = <<[stmt |-> "SELECT COUNT"]>>,
                                   !.closes = 1]]

\* VectorStore.get_table_info (vector_store.py:114-134): execute returns
\* None on an error and the count is then reported as 0.
GetTableInfoRun(fam, rows, db) ==
    IF db = "connect_fail"
    THEN [ret |-> None, io |-> NoIO]
    ELSE
      LET result == IF db = "execute_fail" THEN DbError
                    ELSE [kind |-> "rows", count |-> Len(rows)]
          count == IF result.kind = "rows" THEN result.count ELSE 0
      IN  [ret |-> [kind |-> "dict", model_type |-> fam,
                    table_name |-> TableName(fam),
                    embedding_dim |-> EmbeddingDim(fam),
                    document_count |-> count],
           io |-> [Connected EXCEPT !.sql = <<[stmt |-> "SELECT COUNT"]>>,
                                    !.closes = 1]]

----------------------------------------------------------------------------
(* Health checks of the generation backends and RAGSystem.__init__ *)

\* A model name is a sequence of name parts; "a in b" on two Python strings
\* is the contiguous-subsequence test on them.
IsSubstring(a, b) ==
    \E i \in 0 .. (Len(b) - Len(a)) : SubSeq(b, i + 1, i + Len(a)) = a

\* model="llama3.1:8b-instruct-q4_K_M" of rag_system.py:49
LocalModel == <<"llama3.1", ":8b-instruct-q4_K_M">>

\* the value of GEMINI_MODEL (cloud_llm.py:30)
CloudModel == <<"gemini", "-flash">>

ConfiguredModel(local) == IF local THEN LocalModel ELSE CloudModel

\* Names a server may list for a configured model: the name itself, the
\* name under a prefix, and the base name without its tag.
ServedNames(model) == {model, <<"library/">> \o model, <<Head(model)>>}

\* What client.list() / genai.list_models() gives: an exception, or the
\* names extracted from the response (local_llm.py:83-109, cloud_llm.py:77).
ListResponses(model) ==
    {[kind |-> "error"]}
        \cup {[kind |-> "list", names |-> ns] : ns \in SUBSET ServedNames(model)}

\* local_llm.py:76-124
LocalTestConnection(model, resp) ==
    IF resp.kind = "error" THEN FALSE ELSE model \in resp.names

\* cloud_llm.py:75-96
CloudTestConnection(model, resp) ==
    IF resp.kind = "error" THEN FALSE
    ELSE \E m \in resp.names : IsSubstring(model, m)

test_connection(local, resp) ==
    IF local THEN LocalTestConnection(LocalModel, resp)
    ELSE CloudTestConnection(CloudModel, resp)

DbSettings == {"DB_HOST", "DB_PORT", "DB_NAME", "DB_USER", "DB_PASSWORD"}

Settings == DbSettings \cup {"GEMINI_API_KEY", "GEMINI_MODEL", "OLLAMA_BASE_URL"}

\* The settings present in the process environment: all of them, all but
\* one, or none.
Environments == {Settings, {}} \cup {Settings \ {x} : x \in Settings}

\* db_connection.py:27-36: os.getenv gives None for an unset variable and
\* nothing is checked.
DatabaseConnectionInit(env) ==
    [s \in DbSettings |-> IF s \in env THEN "set" ELSE "None"]

\* gemini_embedding.py:14-20, ollama_embedding.py:14-20
EmbedderInit(fam, env) ==
    IF fam = "google"
    THEN IF "GEMINI_API_KEY" \in env THEN [kind |-> "GeminiEmbedding"]
         ELSE Raised("ValueError")
    ELSE IF "OLLAMA_BASE_URL" \in env THEN [kind |-> "OllamaEmbedding"]
         ELSE Raised("ValueError")

\* cloud_llm.py:18-36
CloudLLMInit(env) ==
    IF "GEMINI_API_KEY" \notin env THEN Raised("ValueError")
    ELSE IF "GEMINI_MODEL" \notin env THEN Raised("ValueError")
    ELSE [kind |-> "CloudLLM", model |-> CloudModel]

\* local_llm.py:15-31 as called at rag_system.py:47-50: host and model are
\* the literals of the call, the environment is not read.
LocalLLMInit ==
    [kind |-> "LocalLLM", host |-> "http://192.168.100.30:11434",
     model |-> LocalModel]

\* RAGSystem.__init__ (rag_system.py:14-58)
ConstructRun(local, fam, env, models) ==
    LET db == DatabaseConnectionInit(env)
        embedder == EmbedderInit(fam, env)
        llm == IF local THEN LocalLLMInit ELSE CloudLLMInit(env)
        done == [kind |-> "RAGSystem", db |-> db, embedder |-> embedder.kind,
                 table_name |-> TableName(fam), llm |-> llm]
    IN  IF embedder.kind = "raised"
        THEN [ret |-> embedder, io |-> NoIO]
        ELSE IF local
             THEN IF test_connection(TRUE, models)
                  THEN [ret |-> done, io |-> [NoIO EXCEPT !.list_models = 1]]
                  ELSE [ret |-> Raised("Exception"),
                        io |-> [NoIO EXCEPT !.list_models = 1]]
             ELSE IF llm.kind = "raised"
                  THEN [ret |-> llm, io |-> NoIO]
                  ELSE [ret |-> done, io |-> NoIO]

----------------------------------------------------------------------------
(* The state machine: one action per operation, each the whole call, from   *)
(* connect to close.  Calls are sequential: a caller makes a call, takes    *)
(* its return value and only then makes the next one.                       *)

Idle == [name |-> "idle"]

Callers == {1, 2}

\* self.connection = None, self.cursor = None (db_connection.py:28-29);
\* a connection is named by its position in conns, 0 is None
NoConnection == [connection |-> 0, cursor |-> 0]

IdleCaller == [at |-> "idle", name |-> "none", mine |-> 0, used |-> 0]

NoCallers ==
    /\ self_db = NoConnection
    /\ conns = <<>>
    /\ pc = [c \in Callers |-> IdleCaller]

Init ==
    /\ embedding_model \in Families
    /\ use_local_llm \in BOOLEAN
    /\ schema = Deployed
    /\ table = <<>>
    /\ op = Idle
    /\ ret = None
    /\ io = NoIO
    /\ NoCallers

AddDocument ==
    /\ op = Idle
    /\ \E doc \in Documents, db \in DbOutcomes, resp \in EmbResponses(embedding_model) :
        LET run == AddDocumentRun(embedding_model, table, doc.text, doc.metadata,
                                  DbOutcomeOn(schema, db), resp)
        IN  /\ Len(run.table) <= MaxDocs
            /\ op' = [name |-> "add_document", text |-> doc.text,
                      metadata |-> doc.metadata, db |-> db, resp |-> resp]
            /\ ret' = run.ret
            /\ table' = run.table
            /\ io' = run.io
            /\ UNCHANGED <<self_db, conns, pc, embedding_model, use_local_llm, schema>>

Search ==
    /\ op = Idle
    /\ \E query_text \in Texts, top_k \in TopKs, db \in DbReadOutcomes,
       resp \in EmbResponses(embedding_model) :
        \E run \in SearchRuns(embedding_model, table, query_text, top_k,
                            DbOutcomeOn(schema, db), resp) :
            /\ op' = [name |-> "search", text |-> query_text, top_k |-> top_k,
                      db |-> db, resp |-> resp]
            /\ ret' = run.ret
            /\ io' = run.io
            /\ UNCHANGED <<self_db, conns, pc, embedding_model, use_local_llm, schema, table>>

AnswerQuestion ==
    /\ op = Idle
    /\ \E question \in Texts, db \in DbReadOutcomes,
       resp \in EmbResponses(embedding_model), gen \in GenResponses :
        \E run \in AnswerQuestionRuns(embedding_model, use_local_llm, table,
                                      question, DbOutcomeOn(schema, db), resp,
                                      gen) :
            /\ op' = [name |-> "answer_question", text |-> question,
                      db |-> db, resp |-> resp, gen |-> gen]
            /\ ret' = run.ret
            /\ io' = run.io
            /\ UNCHANGED <<self_db, conns, pc, embedding_model, use_local_llm, schema, table>>

InsertDocument ==
    /\ op = Idle
    /\ \E doc \in Documents, embedding \in QueryVectors(embedding_model),
          db \in DbOutcomes :
        LET run == InsertDocumentRun(embedding_model, table, doc.text, embedding,
                                     doc.metadata, DbOutcomeOn(schema, db))
        IN  /\ Len(run.table) <= MaxDocs
            /\ op' = [name |-> "insert_document", text |-> doc.text,
                      metadata |-> doc.metadata, vector |-> embedding, db |-> db]
            /\ ret' = run.ret
            /\ table' = run.table
            /\ io' = run.io
            /\ UNCHANGED <<self_db, conns, pc, embedding_model, use_local_llm, schema>>

SearchSimilar ==
    /\ op = Idle
    /\ \E query_embedding \in QueryVectors(embedding_model), top_k \in TopKs,
       db \in DbReadOutcomes :
        \E run \in SearchSimilarRuns(embedding_model, table, query_embedding,
                                     top_k, DbOutcomeOn(schema, db)) :
            /\ op' = [name |-> "search_similar", vector |-> query_embedding,
                      top_k |-> top_k, db |-> db]
            /\ ret' = run.ret
            /\ io' = run.io
            /\ UNCHANGED <<self_db, conns, pc, embedding_model, use_local_llm, schema, table>>

\* rag.llm.test_connection() on the configured generation backend
TestConnection ==
    /\ op = Idle
    /\ \E models \in ListResponses(ConfiguredModel(use_local_llm)) :
        /\ op' = [name |-> "test_connection", models |-> models]
        /\ ret' = [kind |-> "bool",
                   value |-> test_connection(use_local_llm, models)]
        /\ io' = [NoIO EXCEPT !.list_models = 1]
        /\ UNCHANGED <<self_db, conns, pc, embedding_model, use_local_llm, schema, table>>

\* A process start constructs the system again with the same arguments
\* (rag_system.py:335, streamlit_app.py:91-94) in whatever environment it
\* finds; the stored rows are the database's and outlive it.
Construct ==
    /\ op = Idle
    /\ \E env \in Environments, models \in ListResponses(LocalModel) :
        LET run == ConstructRun(use_local_llm, embedding_model, env, models)
        IN  /\ op' = [name |-> "construct", env |-> env, models |-> models]
            /\ ret' = run.ret
            /\ io' = run.io
            /\ UNCHANGED <<self_db, conns, pc, embedding_model, use_local_llm, schema, table>>

CreateTable ==
    /\ op = Idle
    /\ \E db \in CreateOutcomes :
        LET run == CreateTableRun(schema, db)
        IN  /\ op' = [name |-> "create_table", db |-> db]
            /\ ret' = run.ret
            /\ schema' = run.schema
            /\ io' = run.io
            /\ UNCHANGED <<self_db, conns, pc, embedding_model, use_local_llm, table>>

GetTableInfo ==
    /\ op = Idle
    /\ \E db \in DbReadOutcomes :
        LET run == GetTableInfoRun(embedding_model, table, DbOutcomeOn(schema, db))
        IN  /\ op' = [name |-> "get_table_info", db |-> db]
            /\ ret' = run.ret
            /\ io' = run.io
            /\ UNCHANGED <<self_db, conns, pc, embedding_model, use_local_llm, schema, table>>

\* The caller has taken the return value.  Nothing of a call outlives it:
\* results and diagnostics are locals of the call, the connection is closed.
Return ==
    /\ op # Idle
    /\ op' = Idle
    /\ ret' = None
    /\ io' = NoIO
    /\ UNCHANGED <<self_db, conns, pc, embedding_model, use_local_llm, schema, table>>

Next ==
    \/ AddDocument
    \/ Search
    \/ AnswerQuestion
    \/ InsertDocument
    \/ SearchSimilar
    \/ TestConnection
    \/ Construct
    \/ Return

Spec == Init /\ [][Next]_vars

\* The VectorStore on a database that has no schema yet
InitSchema ==
    /\ embedding_model \in Families
    /\ use_local_llm \in BOOLEAN
    /\ schema = NoSchema
    /\ table = <<>>
    /\ op = Idle
    /\ ret = None
    /\ io = NoIO
    /\ NoCallers

NextSchema ==
    \/ CreateTable
    \/ InsertDocument
    \/ SearchSimilar
    \/ Return

SpecSchema == InitSchema /\ [][NextSchema]_vars

\* Every operation that opens a database connection, on a deployed schema
NextConnections ==
    \/ AddDocument
    \/ Search
    \/ CreateTable
    \/ GetTableInfo
    \/ InsertDocument
    \/ SearchSimilar
    \/ Return

SpecConnections == Init /\ [][NextConnections]_vars

\* Documents a collection may hold when a question is asked
AnswerDocuments(fam) ==
    {[text |-> "A", embedding |-> Vec(EmbeddingDim(fam), 0)],
     [text |-> "B", embedding |-> Vec(EmbeddingDim(fam), 1)],
     [text |-> "A", embedding |-> Vec(EmbeddingDim(fam), 2)]}

RECURSIVE InsertAll(_, _, _)
\* The table after insert_document of each of docs in turn
InsertAll(fam, rows, docs) ==
    IF docs = <<>> THEN rows
    ELSE InsertAll(fam,
                   InsertDocumentRun(fam, rows, Head(docs).text,
                                     Head(docs).embedding, None, "ok").table,
                   Tail(docs))

\* answer_question on a collection of up to MaxAnswerDocs documents
InitAnswer ==
    /\ embedding_model \in Families
    /\ use_local_llm \in BOOLEAN
    /\ schema = Deployed
    /\ \E n \in 0 .. MaxAnswerDocs :
          \E docs \in [1 .. n -> AnswerDocuments(embedding_model)] :
              table = InsertAll(embedding_model, <<>>, docs)
    /\ op = Idle
    /\ ret = None
    /\ io = NoIO
    /\ NoCallers

NextAnswer ==
    \/ AnswerQuestion
    \/ Return

SpecAnswer == InitAnswer /\ [][NextAnswer]_vars

----------------------------------------------------------------------------
(* Interleaved calls on one RAGSystem.  The instance holds one             *)
(* DatabaseConnection (rag_system.py:26) whose connection and cursor        *)
(* fields every call assigns in connect() and reads afterwards.  A caller   *)
(* takes the steps of add_document / search in order: connect, embed,       *)
(* execute on self.db.cursor, close in the finally; answer_question then    *)
(* generates.  In the sequential specifications nobody takes these steps.   *)

ThreadOps == {"add_document", "search", "answer_question"}

\* DatabaseConnection.connect (db_connection.py:39-51): a new connection
\* and its cursor replace whatever the fields held.
DbConnect(c) ==
    [conns |-> Append(conns, [opened_by |-> c, open |-> TRUE, closed_by |-> <<>>]),
     db |-> [connection |-> Len(conns) + 1, cursor |-> Len(conns) + 1]]

\* DatabaseConnection.close (db_connection.py:57-63): closes what the
\* fields hold now; the fields keep pointing at the closed connection.
DbClose(c) ==
    IF self_db.connection = 0 THEN conns
    ELSE [conns EXCEPT ![self_db.connection] =
            [@ EXCEPT !.open = FALSE, !.closed_by = Append(@, c)]]

\* self.db.connect() at the start of a call (rag_system.py:75, 135).  A
\* connect that fails assigns nothing and the call returns at once, which
\* changes no state.
ThreadConnect(c) ==
    /\ pc[c].at = "idle"
    /\ Len(conns) < MaxConnections
    /\ \E name \in ThreadOps :
        /\ conns' = DbConnect(c).conns
        /\ self_db' = DbConnect(c).db
        /\ pc' = [pc EXCEPT ![c] = [at |-> "embed", name |-> name,
                                    mine |-> Len(conns) + 1, used |-> 0]]
    /\ UNCHANGED <<embedding_model, use_local_llm, schema, table, op, ret, io>>

\* self.embedder.get_embedding / get_query_embedding (rag_system.py:81,
\* 143); without a vector the call goes to its finally
ThreadEmbed(c) ==
    /\ pc[c].at = "embed"
    /\ \E ok \in BOOLEAN :
        pc' = [pc EXCEPT ![c].at = IF ok THEN "execute" ELSE "close"]
    /\ UNCHANGED <<embedding_model, use_local_llm, schema, table, op, ret, io,
                   self_db, conns>>

\* self.db.execute / self.db.cursor.execute (rag_system.py:98, 166): the
\* statement runs on the cursor the field holds at that moment
ThreadExecute(c) ==
    /\ pc[c].at = "execute"
    /\ pc' = [pc EXCEPT ![c].at = "close", ![c].used = self_db.cursor]
    /\ UNCHANGED <<embedding_model, use_local_llm, schema, table, op, ret, io,
                   self_db, conns>>

\* finally: self.db.close() (rag_system.py:117-118, 235-236)
ThreadClose(c) ==
    /\ pc[c].at = "close"
    /\ conns' = DbClose(c)
    /\ pc' = [pc EXCEPT ![c] = IF pc[c].name = "answer_question"
                                THEN [@ EXCEPT !.at = "generate"]
                                ELSE IdleCaller]
    /\ UNCHANGED <<embedding_model, use_local_llm, schema, table, op, ret, io, self_db>>

\* self.llm.generate and the return of answer_question (rag_system.py:296)
ThreadGenerate(c) ==
    /\ pc[c].at = "generate"
    /\ pc' = [pc EXCEPT ![c] = IdleCaller]
    /\ UNCHANGED <<embedding_model, use_local_llm, schema, table, op, ret, io,
                   self_db, conns>>

NextThreads ==
    \E c \in Callers :
        \/ ThreadConnect(c)
        \/ ThreadEmbed(c)
        \/ ThreadExecute(c)
        \/ ThreadClose(c)
        \/ ThreadGenerate(c)

SpecThreads == Init /\ [][NextThreads]_vars

----------------------------------------------------------------------------
(* Properties.  Each is about the operation that has just returned: op      *)
(* holds its inputs and what the environment did, ret its return value, io  *)
(* its calls, table the collection after it.                                *)

IsVector(resp) == resp.kind = "vector"

\* the runs of search that answer_question's retrieval step may have made
RetrievalRuns ==
    SearchRuns(embedding_model, table, op.text, AnswerTopK, op.db, op.resp)

\* C1: whenever search returns diagnostics, the retained and the discarded
\* candidates together are as many as the raw candidates, top_k_raw is the
\* number of raw candidates and filtered_count the number of results.
C1_FilterPartitionsRaw ==
    (op.name = "search" /\ ret.debug_info.kind # "None") =>
        LET d == ret.debug_info
        IN  /\ Len(d.results_filtered) + Len(d.discarded_reasons) = Len(d.results_raw)
            /\ Len(d.results_raw) = d.top_k_raw
            /\ d.filtered_count = Len(ret.results)

C1_Witness ==
    /\ op.name = "search"
    /\ ret.debug_info.kind # "None"
    /\ Len(ret.debug_info.results_raw) = 2
    /\ Len(ret.results) = 2

\* C2: when the retrieval step of answer_question yields no document, the
\* call returns the fixed "no relevant documents" answer and never invokes
\* generate.
C2_EmptyRetrievalSkipsGeneration ==
    (op.name = "answer_question" /\ \A s \in RetrievalRuns : s.ret.results = <<>>) =>
        /\ ret.answer = NoDocumentsAnswer
        /\ io.generate = <<>>

C2_Witness ==
    /\ op.name = "answer_question"
    /\ op.db = "ok"
    /\ op.gen.kind = "text"
    /\ ret.debug_info.kind # "None"
    /\ ret.debug_info.results_filtered = <<>>
    /\ ret.answer = NoDocumentsAnswer
    /\ io.sql # <<>>

\* C3: when retrieval returns at least one document and generate returns
\* None, answer_question returns the fixed "answer generation failed"
\* message, which is not the "no relevant documents" message, with the
\* diagnostics of the retrieval, raw and filtered candidate lists included.
C3_GenerationFailureKeepsDiagnostics ==
    (/\ op.name = "answer_question"
     /\ \A s \in RetrievalRuns : s.ret.results # <<>>
     /\ llm_generate(use_local_llm, op.gen) = None) =>
        /\ ret.answer = GenerationFailedAnswer
        /\ ret.answer # NoDocumentsAnswer
        /\ \E s \in RetrievalRuns : ret.debug_info = s.ret.debug_info
        /\ ret.debug_info.kind # "None"
        /\ ret.debug_info.results_raw # <<>>
        /\ ret.debug_info.results_filtered # <<>>

C3_Witness ==
    /\ op.name = "answer_question"
    /\ op.gen.kind = "error"
    /\ Len(io.generate) = 1
    /\ ret.answer = GenerationFailedAnswer
    /\ Len(ret.debug_info.results_raw) = 2

\* the SELECT of the call that has just returned raised an error
QueryRaised ==
    /\ io.sql # <<>>
    /\ \/ op.db = "execute_fail"
       \/ table # <<>> /\ io.sql[1].vector.len # EmbeddingDim(embedding_model)

\* C4 as claimed: every call of answer_question returns non-null diagnostics.
C4_DiagnosticsNeverNull ==
    op.name = "answer_question" => ret.debug_info.kind # "None"

\* C4 as amended: answer_question returns non-null diagnostics exactly when
\* its retrieval step completed the nearest-neighbor query (generated answer,
\* generation failure, or no rows found); when the connection fails, the
\* query embedding is absent or the query raises, it returns the "no relevant
\* documents" answer with null diagnostics.
C4_DiagnosticsIffQueryCompleted ==
    op.name = "answer_question" =>
        /\ ret.debug_info.kind # "None" <=> (io.sql # <<>> /\ ~QueryRaised)
        /\ ret.debug_info.kind = "None" =>
              (ret.answer = NoDocumentsAnswer /\ io.generate = <<>>)

C4_Witness ==
    /\ op.name = "answer_question"
    /\ op.db = "ok"
    /\ op.resp.kind = "error"
    /\ Len(io.embed) = 1
    /\ ret.debug_info.kind = "None"
    /\ ret.answer = NoDocumentsAnswer

\* C5: when the embedding backend returns a document vector whose length is
\* not the family's declared dimension, add_document returns failure, issues
\* no INSERT and leaves the collection as it was.
C5_WrongLengthNotPersisted ==
    [][(/\ op'.name = "add_document"
        /\ op'.db # "connect_fail"
        /\ IsVector(op'.resp)
        /\ op'.resp.len # EmbeddingDim(embedding_model)) =>
            (/\ ret' = None
             /\ io'.sql = <<>>
             /\ table' = table)]_vars

C5_Witness ==
    /\ op.name = "add_document"
    /\ op.db = "ok"
    /\ IsVector(op.resp)
    /\ op.resp.len = WrongLen
    /\ Len(io.embed) = 1
    /\ ret = None

\* the backend answered with a vector of the family's declared dimension
DeclaredVector(resp) ==
    IsVector(resp) /\ resp.len = EmbeddingDim(embedding_model)

\* C6: with a healthy database and a backend that returns vectors of the
\* declared dimension, add_document(A) succeeds and stores A with its vector
\* V, and a search whose query embeds to V returns A at rank 1 with distance
\* 0 when no other row holds the same vector.
C6_InsertThenSearchRoundTrip ==
    /\ (op.name = "add_document" /\ op.db = "ok" /\ DeclaredVector(op.resp)) =>
          /\ ret.kind = "id"
          /\ table # <<>>
          /\ table[Len(table)].id = ret.id
          /\ table[Len(table)].document_text = op.text
          /\ table[Len(table)].embedding = op.resp
    /\ (/\ op.name = "search" /\ op.db = "ok" /\ op.top_k >= 1
        /\ DeclaredVector(op.resp)
        /\ Cardinality({i \in 1 .. Len(table) : table[i].embedding = op.resp}) = 1) =>
          /\ ret.results # <<>>
          /\ ret.results[1].distance = 0
          /\ \E i \in 1 .. Len(table) :
                /\ table[i].embedding = op.resp
                /\ table[i].id = ret.results[1].id
                /\ table[i].document_text = ret.results[1].text
          /\ ret.debug_info.results_raw[1].rank = 1

\* C7: get_embedding of each provider returns the backend's vector whenever
\* the backend answers with a vector of the declared dimension, and None only
\* on an error (backend failure, missing vector, wrong length).
C7_DocumentEmbeddingReturnsVector ==
    (op.name = "add_document" /\ op.db # "connect_fail") =>
        LET embedding == get_embedding(embedding_model, op.resp)
        IN  /\ DeclaredVector(op.resp) => embedding = op.resp
            /\ embedding = None => ~DeclaredVector(op.resp)

\* C8: get_query_embedding never returns a (non-empty) vector whose length
\* is not the declared dimension: it returns None for such a response, so no
\* search issues its nearest-neighbor query with such a vector.
C8_QueryVectorHasDeclaredLength ==
    (op.name \in {"search", "answer_question"} /\ op.db # "connect_fail") =>
        /\ (IsVector(op.resp) /\ op.resp.len # 0 /\ ~DeclaredVector(op.resp)) =>
              get_query_embedding(embedding_model, op.resp) = None
        /\ \A i \in 1 .. Len(io.sql) :
              io.sql[i].vector.len = EmbeddingDim(embedding_model)

\* C9: when the provider returns None for the query, search returns empty
\* results with null diagnostics, issues no nearest-neighbor query and has
\* called the provider once.
C9_EmbeddingFailureIsTerminal ==
    (/\ op.name = "search"
     /\ op.db # "connect_fail"
     /\ get_query_embedding(embedding_model, op.resp) = None) =>
        /\ ret.results = <<>>
        /\ ret.debug_info = None
        /\ io.sql = <<>>
        /\ Len(io.embed) = 1

C9_Witness ==
    /\ op.name = "search"
    /\ op.db = "ok"
    /\ op.resp.kind = "error"
    /\ table # <<>>
    /\ ret.debug_info = None
    /\ Len(io.embed) = 1

\* C10: the raw candidate list of a nearest-neighbor query with limit k
\* (search, search_similar) is no longer than k and no longer than the
\* collection, and its distances never decrease from one rank to the next.
C10_RawWithinLimitAndSorted ==
    (op.name \in {"search", "search_similar"} /\ ret.debug_info.kind # "None") =>
        LET raw == ret.debug_info.results_raw
        IN  /\ Len(raw) <= op.top_k
            /\ Len(raw) <= Len(table)
            /\ \A i \in 1 .. Len(raw) - 1 : raw[i].distance <= raw[i + 1].distance

C10_Witness ==
    /\ op.name = "search"
    /\ op.top_k = 1
    /\ Len(table) = 2
    /\ ret.debug_info.kind # "None"
    /\ Len(ret.debug_info.results_raw) = 1
    /\ ret.debug_info.results_raw[1].id = 2
    /\ ret.debug_info.results_raw[1].distance = 1

\* C11: with the default (unset) threshold every raw candidate passes the
\* filter of search: the results are the raw candidates in the same order
\* with the same ids and distances, nothing is discarded and
\* diagnostics.threshold is null.
C11_DefaultThresholdKeepsAll ==
    (op.name = "search" /\ ret.debug_info.kind # "None") =>
        LET d == ret.debug_info
        IN  /\ d.threshold = None
            /\ d.discarded_reasons = <<>>
            /\ Len(ret.results) = Len(d.results_raw)
            /\ Len(d.results_filtered) = Len(d.results_raw)
            /\ \A i \in 1 .. Len(d.results_raw) :
                  /\ ret.results[i].id = d.results_raw[i].id
                  /\ ret.results[i].distance = d.results_raw[i].distance
                  /\ d.results_filtered[i].id = d.results_raw[i].id
                  /\ d.results_filtered[i].distance = d.results_raw[i].distance

C11_Witness ==
    /\ op.name = "search"
    /\ ret.debug_info.kind # "None"
    /\ Len(ret.results) = 2
    /\ ret.results[1].distance = 1
    /\ ret.results[2].distance = 2
    /\ ret.results[1].id = 2

\* C12: answer_question gives the "no relevant documents" answer only when
\* retrieval completed and returned zero documents; a failure to reach the
\* database or the embedding endpoint is not answered that way.
C12_NoDocumentsOnlyWhenEmpty ==
    (op.name = "answer_question" /\ ret.answer = NoDocumentsAnswer) =>
        /\ op.db # "connect_fail"
        /\ op.resp.kind # "error"
        /\ io.sql # <<>>
        /\ ~QueryRaised
        /\ ret.debug_info.kind # "None"
        /\ ret.debug_info.results_raw = <<>>

\* C14: no INSERT is sent to the database with a vector whose length is not
\* the family's dimension (insert_document, add_document).
C14_WrongLengthInsertNotSent ==
    (op.name \in {"insert_document", "add_document"}) =>
        \A i \in 1 .. Len(io.sql) :
            io.sql[i].stmt = "INSERT" =>
                io.sql[i].embedding.len = EmbeddingDim(embedding_model)

\* C15: a search with top_k <= 0 is rejected: no nearest-neighbor query is
\* executed for it and it is not reported as a retrieval that found nothing.
C15_NonPositiveTopKRejected ==
    (/\ op.name \in {"search", "search_similar"}
     /\ op.top_k <= 0) =>
        /\ io.sql = <<>>
        /\ ret.debug_info.kind = "None"

\* C16: on an empty collection with a healthy database and embedding
\* backend, search(query, top_k=3) returns no results and non-null
\* diagnostics with top_k_raw = 0, filtered_count = 0 and empty raw,
\* filtered and discard lists.
C16_EmptyCollectionSearch ==
    (/\ op.name = "search"
     /\ op.db = "ok"
     /\ DeclaredVector(op.resp)
     /\ op.top_k = 3
     /\ table = <<>>) =>
        /\ ret.results = <<>>
        /\ ret.debug_info.kind # "None"
        /\ ret.debug_info.top_k_raw = 0
        /\ ret.debug_info.filtered_count = 0
        /\ ret.debug_info.results_raw = <<>>
        /\ ret.debug_info.results_filtered = <<>>
        /\ ret.debug_info.discarded_reasons = <<>>

C16_Witness ==
    /\ op.name = "search"
    /\ op.db = "ok"
    /\ DeclaredVector(op.resp)
    /\ op.top_k = 3
    /\ table = <<>>
    /\ Len(io.sql) = 1
    /\ ret.debug_info.kind # "None"

\* C13: constructing the system with a required setting absent (a database
\* connection parameter, the embedding backend's key or base URL, the cloud
\* generation backend's key or model) raises, and no network call is made
\* before it does.  Stated for a generation server that is up and serves
\* the configured model, so that nothing else can make construction fail.
RequiredSettings(local, fam) ==
    DbSettings
        \cup (IF fam = "google" THEN {"GEMINI_API_KEY"} ELSE {"OLLAMA_BASE_URL"})
        \cup (IF local THEN {} ELSE {"GEMINI_API_KEY", "GEMINI_MODEL"})

C13_MissingSettingRaisesAtConstruction ==
    (/\ op.name = "construct"
     /\ LocalTestConnection(LocalModel, op.models)
     /\ RequiredSettings(use_local_llm, embedding_model) \ op.env # {}) =>
        /\ ret.kind = "raised"
        /\ io.list_models = 0

\* C18: test_connection of either generation backend returns true exactly
\* when the model list was fetched and some served name contains the
\* configured model name as a substring.
C18_TestConnectionSubstringMatch ==
    (op.name = "test_connection") =>
        (ret.value <=>
            /\ op.models.kind = "list"
            /\ \E m \in op.models.names :
                  IsSubstring(ConfiguredModel(use_local_llm), m))

\* C19: errors of the embedding and generation components do not escape
\* as exceptions.  On a backend failure the providers' embed and generate
\* methods return None, and add_document, search and answer_question
\* return a value of their usual shape whatever the database, the embedding
\* backend and the generation backend did.
C19_ErrorsDoNotEscape ==
    /\ (op.name = "add_document") =>
          /\ op.resp.kind = "error" => get_embedding(embedding_model, op.resp) = None
          /\ ret.kind \in {"None", "id"}
    /\ (op.name = "search") =>
          /\ op.resp.kind = "error" =>
                get_query_embedding(embedding_model, op.resp) = None
          /\ DOMAIN ret = {"results", "debug_info"}
    /\ (op.name = "answer_question") =>
          /\ op.resp.kind = "error" =>
                get_query_embedding(embedding_model, op.resp) = None
          /\ op.gen.kind = "error" => llm_generate(use_local_llm, op.gen) = None
          /\ DOMAIN ret = {"answer", "debug_info"}

C19_Witness ==
    /\ op.name = "answer_question"
    /\ use_local_llm
    /\ op.gen.kind = "error"
    /\ Len(io.generate) = 1
    /\ DOMAIN ret = {"answer", "debug_info"}
    /\ ret.debug_info.kind # "None"

\* C17: create_table on a healthy database succeeds and leaves exactly one
\* table and one index for the family; called again on that schema it
\* succeeds again, creates nothing and leaves schema and rows as they were.
C17_CreateTableIdempotent ==
    [][(op'.name = "create_table" /\ op'.db = "ok") =>
          /\ ret'.value
          /\ schema' = Deployed
          /\ schema = Deployed =>
                /\ schema' = schema
                /\ table' = table
                /\ io'.sql[1].result = "exists"
                /\ io'.sql[2].result = "exists"]_vars

C17_Witness ==
    /\ op.name = "create_table"
    /\ op.db = "ok"
    /\ ret.value
    /\ io.sql[1].result = "exists"
    /\ io.sql[2].result = "exists"
    /\ schema = Deployed
    /\ table # <<>>

\* C20: when retrieval yields n >= 1 documents, answer_question calls
\* generate exactly once, with a prompt whose context holds exactly those n
\* documents (n <= 3), labelled 1..n in retrieval order and joined by a
\* blank line, followed by the question and the answer cue.
C20_PromptHoldsRetrievedDocuments ==
    (/\ op.name = "answer_question"
     /\ ret.debug_info.kind # "None"
     /\ ret.debug_info.filtered_count >= 1) =>
        LET d == ret.debug_info
            n == d.filtered_count
        IN  /\ n <= AnswerTopK
            /\ n = IF Len(table) < AnswerTopK THEN Len(table) ELSE AnswerTopK
            /\ Len(io.generate) = 1
            /\ LET p == io.generate[1]
               IN  /\ DOMAIN p.context = 1 .. n
                   /\ \A i \in 1 .. n :
                         /\ p.context[i].label = i
                         /\ p.context[i].text =
                               table[d.results_filtered[i].id].document_text
                   /\ p.separator = "blank line"
                   /\ p.question = op.text
                   /\ p.cue = "answer:"

C20_Witness ==
    /\ op.name = "answer_question"
    /\ Len(table) = MaxAnswerDocs
    /\ ret.debug_info.kind # "None"
    /\ ret.debug_info.filtered_count = AnswerTopK
    /\ Len(io.generate) = 1
    /\ ret.debug_info.results_filtered[1].id = 3
    /\ io.generate[1].context[1].text # io.generate[1].context[2].text

\* C25: create_table returns True only if both the CREATE TABLE and the
\* CREATE INDEX statement succeeded in the database.
C25_CreateTableReportsStatementFailure ==
    (op.name = "create_table" /\ ret.value) =>
        /\ io.sql[1].result # "error"
        /\ io.sql[2].result # "error"

\* C23: no layer retries.  Within one add_document, search or
\* answer_question call the embedding backend is called at most once, at
\* most one INSERT or nearest-neighbor query is issued and the generation
\* backend is called at most once; after a failed step nothing later runs.
C23_NoRetries ==
    (op.name \in {"add_document", "search", "answer_question"}) =>
        /\ Len(io.embed) <= 1
        /\ Len(io.sql) <= 1
        /\ Len(io.generate) <= 1
        /\ io.connects <= 1
        /\ (op.resp.kind = "error") => (io.sql = <<>> /\ io.generate = <<>>)
        /\ (op.db = "execute_fail") => io.generate = <<>>

C23_Witness ==
    /\ op.name = "answer_question"
    /\ embedding_model = "ollama"
    /\ ~use_local_llm
    /\ op.gen.kind = "error"
    /\ Len(io.embed) = 1
    /\ Len(io.sql) = 1
    /\ Len(io.generate) = 1
    /\ ret.answer = GenerationFailedAnswer

\* C24: add_document is all-or-nothing.  It returns an id exactly when one
\* new row holding its text, vector and metadata was committed to the
\* table; when it returns None the table is unchanged.  search and
\* answer_question never change the table, and no step removes or alters a
\* stored row, so a committed row stays visible to later searches.
C24_AddDocumentAllOrNothing ==
    [][/\ (op'.name = "add_document") =>
            /\ ret'.kind = "id" <=> Len(table') = Len(table) + 1
            /\ ret'.kind = "id" =>
                  /\ table' = Append(table,
                        [id |-> ret'.id, document_text |-> op'.text,
                         embedding |-> get_embedding(embedding_model, op'.resp),
                         metadata |-> MetadataParam(op'.metadata)])
                  /\ io'.commits = 1
            /\ ret'.kind = "None" => table' = table
       /\ (op'.name \in {"search", "answer_question"}) => table' = table
       /\ Len(table') >= Len(table)
       /\ \A i \in 1 .. Len(table) : table'[i] = table[i]]_vars

C24_Witness ==
    /\ op.name = "add_document"
    /\ ret.kind = "id"
    /\ Len(table) = 2
    /\ table[2].id = ret.id
    /\ table[2].document_text = op.text
    /\ io.commits = 1

\* C21: every database connection opened by add_document, search,
\* create_table, get_table_info, insert_document or search_similar is
\* closed when the operation returns, on every exit path; one connection
\* is opened per call unless connecting fails.
C21_ConnectionsClosed ==
    (op.name \in {"add_document", "search", "create_table", "get_table_info",
                  "insert_document", "search_similar"}) =>
        /\ io.closes = io.connects
        /\ io.connects = IF op.db = "connect_fail" THEN 0 ELSE 1

C21_Witness ==
    /\ op.name = "add_document"
    /\ op.db = "ok"
    /\ op.resp.kind = "error"
    /\ ret = None
    /\ io.connects = 1
    /\ io.closes = 1
    /\ io.sql = <<>>

\* C22: when calls interleave on one RAGSystem, each call runs its
\* statement on the connection it opened itself, no call closes another
\* call's connection, no connection is closed twice, and once every call
\* has returned every opened connection is closed.
C22_NoSharedConnectionState ==
    /\ \A c \in Callers : pc[c].used # 0 => pc[c].used = pc[c].mine
    /\ \A n \in DOMAIN conns :
          /\ Len(conns[n].closed_by) <= 1
          /\ \A i \in DOMAIN conns[n].closed_by :
                conns[n].closed_by[i] = conns[n].opened_by
    /\ (\A c \in Callers : pc[c].at = "idle") =>
          \A n \in DOMAIN conns : ~conns[n].open

====
